---- MODULE Spec2Model ----
(***************************************************************************)
(* A model of scripts/getmarks_pyqs.py: the crawl of the exam -> subject   *)
(* -> chapter -> question catalog, the normalisation of one question, the  *)
(* image store, the per-chapter JSONL stream, the batched upserts into     *)
(* pyq_questions / pyq_chapters and the master index.                      *)
(*                                                                         *)
(* Identifiers of exams, subjects and chapters are their positions in the  *)
(* fetched listings (the catalog lists each id once).  The id filters      *)
(* EXAM_ID / SUBJECT_ID / CHAPTER_ID are unset.  Python's 0-based indices  *)
(* are kept: raw_questions[idx + 1] is the item the code calls             *)
(* raw_questions[idx].                                                     *)
(***************************************************************************)
EXTENDS Integers, Sequences, FiniteSets, TLC

VARIABLES
    MAX_CHAPTERS,     \* env MAX_CHAPTERS (0: no quota)
    MAX_QUESTIONS,    \* env MAX_QUESTIONS (0: no quota)
    DATABASE_URL,     \* TRUE iff env DATABASE_URL is set
    IMAGE_BACKEND,    \* env IMAGE_BACKEND: "local" or "s3"
    pc,               \* position of the control in main / process_chapter
    progress,         \* the ProgressTracker
    exams, exam,      \* main: the exam listing (its length) and the loop position
    subjects, subject,
    chapters, chapter,
    all_data,         \* main: the list of chapter_data
    raw_questions,    \* process_chapter: the fetched questions
    idx,              \* process_chapter: the loop index of enumerate(raw_questions)
    question_count,   \* process_chapter
    batch_rows,       \* process_chapter
    writer,           \* process_chapter: "none", "open" or "closed"
    files,            \* JSON_DIR: chapter key -> the lines of the .jsonl file this run wrote
    master_index,     \* the master_index.json writes of this run, in order
    pyq_questions,    \* the table pyq_questions: a set of rows
    pyq_chapters,     \* the table pyq_chapters: a set of rows
    flushes,          \* the insert_questions calls of this process_chapter call
    run,              \* number of the current run of the script
    question,         \* the raw item handed to process_question (normaliser runs)
    processed,        \* what process_question returned
    resolved          \* the ImageStore.download calls made so far, with results

cfgvars  == <<MAX_CHAPTERS, MAX_QUESTIONS, DATABASE_URL, IMAGE_BACKEND>>
mainvars == <<progress, exams, exam, subjects, subject, chapters, chapter, all_data>>
chapvars == <<raw_questions, idx, question_count, batch_rows, writer, flushes>>
diskvars == <<files, master_index>>
dbvars   == <<pyq_questions, pyq_chapters>>
unitvars == <<question, processed, resolved>>
vars     == <<cfgvars, pc, mainvars, chapvars, diskvars, dbvars, run, unitvars>>

----------------------------------------------------------------------------
(* Bounds of the model *)

MaxExams    == 2   \* exams in the dashboard listing
MaxSubjects == 1   \* subjects per exam
MaxChapters == 2   \* chapters per subject
MaxItems    == 2   \* questions per chapter
MaxCatalog  == 2   \* chapters in the whole catalog
MaxQuota    == 1   \* largest configured MAX_CHAPTERS / MAX_QUESTIONS
MaxRuns     == 2   \* runs of the script against the same database
DbItems     == 2   \* questions per chapter in the database runs
MaxOptions  == 5   \* options of one question
MaxResolves == 2   \* download calls in an asset run
MaxPartial  == 1   \* rows a failing executemany may have stored before it failed

(* Program constant: the batch size of process_chapter *)
BatchSize == 500

----------------------------------------------------------------------------
(* Values *)

None == [kind |-> "none"]
Value(v) == [kind |-> "value", val |-> v]
Labels(l) == [kind |-> "labels", labels |-> l]

Min(a, b) == IF a < b THEN a ELSE b

(* A URL is described by what the code reads of it: whether it is empty,   *)
(* whether it starts with "/", and the extension of its path.              *)
NoUrl == [empty |-> TRUE, rooted |-> FALSE, ext |-> "", name |-> 0]
Url(name, rooted, ext) == [empty |-> FALSE, rooted |-> rooted, ext |-> ext, name |-> name]

(* str.lower() on the extensions that occur *)
lower(ext) ==
    CASE ext = ".PNG" -> ".png"
      [] ext = ".JPG" -> ".jpg"
      [] OTHER -> ext

(* hashlib.sha1 of the URL string: a function of the URL, taken injective *)
sha1_hash(url) == <<"sha1", url.name, url.rooted, url.ext>>

(* The declared Content-Type headers: absent, or one of these strings *)
ContentTypes == {"absent", "image/png", "image/jpeg", "image/jpg",
                 "image/webp", "image/svg+xml", "text/html"}

(* `needle in content_type` on the strings above *)
contains(content_type, needle) ==
    \/ content_type = needle
    \/ content_type = "image/svg+xml" /\ needle = "image/svg"

get_file_extension_sniff_first(url, content_type) ==
    IF content_type # "absent" /\ contains(content_type, "image/png") THEN ".png"
    ELSE IF content_type # "absent" /\ contains(content_type, "image/webp") THEN ".webp"
    ELSE IF url.ext # "" THEN lower(url.ext)
    ELSE ".jpg"

get_file_extension(url, content_type) ==
    IF url.ext # "" THEN lower(url.ext)
    ELSE IF content_type # "absent" /\ contains(content_type, "image/png") THEN ".png"
    ELSE IF content_type # "absent"
            /\ (contains(content_type, "image/jpeg") \/ contains(content_type, "image/jpg"))
         THEN ".jpg"
    ELSE IF content_type # "absent" /\ contains(content_type, "image/webp") THEN ".webp"
    ELSE IF content_type # "absent" /\ contains(content_type, "image/svg") THEN ".svg"
    ELSE ".jpg"

(* A response of the image server: raise_for_status passes or not, and the *)
(* declared content type.                                                  *)
Responses == [ok : BOOLEAN, content_type : ContentTypes]
Failed == [ok |-> FALSE, content_type |-> "absent"]

(* A save path img_dir / f"{stem}{ext}" below OUTPUT_DIR *)
SavePath(dir, kind, index, url) ==
    [dir |-> dir, kind |-> kind, index |-> index, hash |-> sha1_hash(url),
     ext |-> get_file_extension(url, "absent")]

(* ImageStore.download: None, or the local reference of the stored asset.  *)
(* save_path.stem is the path's name without its extension.                *)
download(backend, url, save_path, response) ==
    IF url.empty \/ url.rooted THEN None
    ELSE IF ~response.ok THEN None
    ELSE IF backend = "local"
         THEN [kind |-> "path", path |-> save_path]
    ELSE IF backend = "s3"
         THEN [kind |-> "s3",
               key |-> [stem |-> <<save_path.kind, save_path.index, save_path.hash>>,
                        ext |-> get_file_extension(url, response.content_type)]]
    ELSE None

----------------------------------------------------------------------------
(* process_question *)

(* A raw question: is_mapping is FALSE for a payload that is no mapping    *)
(* (process_question raises on it).  An option is [isCorrect, image].      *)
RawOption(isCorrect, image) == [isCorrect |-> isCorrect, image |-> image]

RawQuestion(type, image, options, correctValue) ==
    [is_mapping |-> TRUE, type |-> type, image |-> image, options |-> options,
     correctValue |-> correctValue, solution_image |-> NoUrl]

Malformed ==
    [is_mapping |-> FALSE, type |-> "none", image |-> NoUrl, options |-> <<>>,
     correctValue |-> None, solution_image |-> NoUrl]

(* The responses the image server gives during one process_question call *)
Net(q, opt, sol) == [q |-> q, opt |-> opt, sol |-> sol]
SameNet(r) == Net(r, [i \in 1..MaxOptions + 1 |-> r], r)

letters == <<"A", "B", "C", "D">>

letter_of_zero_based(i) == IF i < Len(letters) THEN letters[i + 1] ELSE ToString(i)

(* letters[i] if i < len(letters) else str(i + 1), i counted from 0 *)
letter_of(i) == IF i < Len(letters) THEN letters[i + 1] ELSE ToString(i + 1)

(* the loop over enumerate(options), from index i on *)
RECURSIVE options_loop(_, _, _, _, _, _, _, _)
options_loop(options, i, out, correct_letters, backend, dir, index, net) ==
    IF i >= Len(options) THEN [options |-> out, correct_letters |-> correct_letters]
    ELSE LET opt == options[i + 1]
             image_ref == download(backend, opt.image,
                                   SavePath(dir, <<"opt", i + 1>>, index, opt.image),
                                   net.opt[i + 1])
             opt_data == [is_correct |-> opt.isCorrect,
                          image |-> IF opt.image.empty THEN None ELSE image_ref]
         IN  options_loop(options, i + 1, Append(out, opt_data),
                          IF opt.isCorrect THEN Append(correct_letters, letter_of(i))
                                           ELSE correct_letters,
                          backend, dir, index, net)

raises(q) == ~q.is_mapping

correct_answer_always_letters(q, correct_letters) == Labels(correct_letters)

(* lines 289-292 *)
correct_answer(q, correct_letters) ==
    IF q.type = "numerical" THEN q.correctValue ELSE Labels(correct_letters)

(* process_question on a question it does not raise on *)
process_question(q, exam_id, subject_id, chapter_id, index, backend, net) ==
    LET dir == <<exam_id, subject_id, chapter_id>>
        q_ref == IF q.image.empty THEN None
                 ELSE download(backend, q.image, SavePath(dir, <<"q">>, index, q.image), net.q)
        loop == options_loop(q.options, 0, <<>>, <<>>, backend, dir, index, net)
        sol_ref == IF q.solution_image.empty THEN None
                   ELSE download(backend, q.solution_image,
                                 SavePath(dir, <<"sol">>, index, q.solution_image), net.sol)
    IN  [index |-> index,
         type |-> q.type,
         question_image |-> q_ref,
         options |-> loop.options,
         correct_answer |-> correct_answer(q, loop.correct_letters),
         solution_image |-> sol_ref]

----------------------------------------------------------------------------
(* DatabaseWriter *)

QuestionKey(row) == <<row.exam_id, row.subject_id, row.chapter_id, row.question_index>>
ChapterKey(row) == <<row.exam_id, row.subject_id, row.chapter_id>>

insert_questions_no_conflict(table, rows) ==
    table \cup {rows[i] : i \in 1..Len(rows)}

(* DatabaseWriter.insert_questions: executemany runs, for each row in      *)
(* order, insert ... on conflict (exam_id, subject_id, chapter_id,         *)
(* question_index) do update set payload = excluded.payload.  A stored row *)
(* with the key of a submitted row goes, and of the submitted rows with    *)
(* one key the last one stays.                                             *)
insert_questions(table, rows) ==
    LET n == Len(rows)
        last == {i \in 1..n :
                    \A j \in (i + 1)..n : QuestionKey(rows[j]) # QuestionKey(rows[i])}
    IN  {r \in table : \A i \in 1..n : QuestionKey(rows[i]) # QuestionKey(r)}
            \cup {rows[i] : i \in last}

(* DatabaseWriter.upsert_chapter: on conflict do update set question_count *)
upsert_chapter(table, row) ==
    {r \in table : ChapterKey(r) # ChapterKey(row)} \cup {row}

(* What one insert_questions call may do: succeed, or raise after the      *)
(* database has stored some of the first rows.                             *)
FlushOutcomes == {[ok |-> TRUE, stored |-> 0]}
                    \cup {[ok |-> FALSE, stored |-> k] : k \in 0..MaxPartial}

Stored(rows, outcome) ==
    IF outcome.ok THEN rows ELSE SubSeq(rows, 1, Min(outcome.stored, Len(rows) - 1))

Indices(rows) == {rows[i].question_index : i \in 1..Len(rows)}

----------------------------------------------------------------------------
(* The quota checks *)

subgroup_quota_never == FALSE

(* MAX_CHAPTERS and progress.processed_chapters >= MAX_CHAPTERS *)
subgroup_quota_reached == MAX_CHAPTERS # 0 /\ progress.processed_chapters >= MAX_CHAPTERS

item_quota_off_by_one == MAX_QUESTIONS # 0 /\ progress.total_questions > MAX_QUESTIONS

(* MAX_QUESTIONS and progress.total_questions >= MAX_QUESTIONS *)
item_quota_reached == MAX_QUESTIONS # 0 /\ progress.total_questions >= MAX_QUESTIONS

----------------------------------------------------------------------------
(* main and process_chapter *)

NewProgress == [total_exams |-> 0, total_subjects |-> 0, total_chapters |-> 0,
                total_questions |-> 0, processed_chapters |-> 0]

(* The state of a fresh process *)
StartOfRun ==
    /\ pc = "main"
    /\ progress = NewProgress
    /\ exams = 0 /\ exam = 0
    /\ subjects = 0 /\ subject = 0
    /\ chapters = 0 /\ chapter = 0
    /\ all_data = <<>>
    /\ raw_questions = <<>>
    /\ idx = 0
    /\ question_count = 0
    /\ batch_rows = <<>>
    /\ writer = "none"
    /\ flushes = <<>>

NoUnit == question = Malformed /\ processed = None /\ resolved = <<>>

Key == <<exam, subject, chapter>>

on_no_exams_write_index == "index"

(* lines 494-496: no exams found, main returns *)
on_no_exams == "returned"

(* lines 493-500: get_jee_exams found n exams; the database connects or not *)
Main(n, connects) ==
    /\ pc = "main"
    /\ IF n = 0
       THEN /\ pc' = on_no_exams
            /\ UNCHANGED <<progress, exams, exam, all_data>>
       ELSE /\ progress' = [progress EXCEPT !.total_exams = n]
            /\ exams' = n
            /\ exam' = 0
            /\ all_data' = <<>>
            /\ pc' = IF DATABASE_URL /\ ~connects THEN "crashed" ELSE "exams"
    /\ UNCHANGED <<cfgvars, subjects, subject, chapters, chapter, chapvars,
                   diskvars, dbvars, run, unitvars>>

(* lines 502-511: the next exam, whose listing has n subjects *)
NextExam(n) ==
    /\ pc = "exams"
    /\ IF exam < exams
       THEN /\ exam' = exam + 1
            /\ subjects' = n
            /\ subject' = 0
            /\ progress' = [progress EXCEPT !.total_subjects = @ + n]
            /\ pc' = "subjects"
       ELSE /\ pc' = "index"
            /\ UNCHANGED <<exam, subjects, subject, progress>>
    /\ UNCHANGED <<cfgvars, exams, chapters, chapter, all_data, chapvars,
                   diskvars, dbvars, run, unitvars>>

(* lines 530-531, after the loop over the subjects of an exam *)
after_subjects == IF subgroup_quota_reached THEN "index" ELSE "exams"

(* lines 528-529, after the loop over the chapters of a subject *)
after_chapters == IF subgroup_quota_reached THEN after_subjects ELSE "subjects"

(* lines 513-520: the next subject, whose listing has n chapters *)
NextSubject(n) ==
    /\ pc = "subjects"
    /\ IF subject < subjects
       THEN /\ subject' = subject + 1
            /\ chapters' = n
            /\ chapter' = 0
            /\ progress' = [progress EXCEPT !.total_chapters = @ + n]
            /\ pc' = "chapters"
       ELSE /\ pc' = after_subjects
            /\ UNCHANGED <<subject, chapters, chapter, progress>>
    /\ UNCHANGED <<cfgvars, exams, exam, subjects, all_data, chapvars,
                   diskvars, dbvars, run, unitvars>>

(* lines 522-525 and 407-426: the next chapter is handed to process_chapter, *)
(* get_questions returns list; an empty list returns None at once, any      *)
(* other opens the chapter's JSONL file for writing.                        *)
EnterChapter(list) ==
    /\ pc = "chapters"
    /\ chapter < chapters
    /\ ~subgroup_quota_reached
    /\ chapter' = chapter + 1
    /\ raw_questions' = list
    /\ IF list = <<>>
       THEN /\ pc' = "chapters"
            /\ UNCHANGED <<idx, question_count, batch_rows, writer, flushes, files>>
       ELSE /\ files' = (<<exam, subject, chapter'>> :> <<>>) @@ files
            /\ question_count' = 0
            /\ batch_rows' = <<>>
            /\ idx' = 0
            /\ writer' = "open"
            /\ flushes' = <<>>
            /\ pc' = "items"
    /\ UNCHANGED <<cfgvars, progress, exams, exam, subjects, subject, chapters,
                   all_data, master_index, dbvars, run, unitvars>>

(* lines 522-524 and 528-531: the loop over the chapters ends, exhausted or *)
(* by the break on MAX_CHAPTERS                                             *)
LeaveChapters ==
    /\ pc = "chapters"
    /\ (chapter >= chapters \/ subgroup_quota_reached)
    /\ pc' = after_chapters
    /\ UNCHANGED <<cfgvars, mainvars, chapvars, diskvars, dbvars, run, unitvars>>

Row(index, payload) ==
    [exam_id |-> exam, subject_id |-> subject, chapter_id |-> chapter,
     question_index |-> index, payload |-> payload]

after_item_error_abort == Len(raw_questions)

(* lines 451-452: the error is printed and the loop goes on *)
after_item_error == idx + 1

(* lines 429-452: one iteration of the loop over raw_questions.  The image  *)
(* server answers with response; a flush of the batch ends as outcome.      *)
Item(response, outcome) ==
    /\ pc = "items"
    /\ idx < Len(raw_questions)
    /\ ~item_quota_reached
    /\ idx' = IF raises(raw_questions[idx + 1]) THEN after_item_error ELSE idx + 1
    /\ LET q == raw_questions[idx + 1]
           payload == process_question(q, exam, subject, chapter, idx,
                                       IMAGE_BACKEND, SameNet(response))
           rows == Append(batch_rows, Row(idx, payload))
       IN  IF raises(q)
           THEN UNCHANGED <<files, question_count, progress, batch_rows,
                            pyq_questions, flushes>>
           ELSE /\ files' = [files EXCEPT ![Key] = Append(@, payload)]
                /\ question_count' = question_count + 1
                /\ progress' = [progress EXCEPT !.total_questions = @ + 1]
                /\ IF ~DATABASE_URL
                   THEN UNCHANGED <<batch_rows, pyq_questions, flushes>>
                   ELSE IF Len(rows) >= BatchSize
                   THEN /\ pyq_questions' = insert_questions(pyq_questions,
                                                             Stored(rows, outcome))
                        /\ flushes' = Append(flushes, Indices(rows))
                        /\ batch_rows' = IF outcome.ok THEN <<>> ELSE rows
                   ELSE /\ batch_rows' = rows
                        /\ UNCHANGED <<pyq_questions, flushes>>
    /\ pc' = "items"
    /\ UNCHANGED <<cfgvars, exams, exam, subjects, subject, chapters, chapter,
                   all_data, raw_questions, writer, master_index, pyq_chapters,
                   run, unitvars>>

(* lines 428-431: the loop ends, by exhaustion or by the break on           *)
(* MAX_QUESTIONS, and the with block closes the writer                      *)
EndItems ==
    /\ pc = "items"
    /\ (idx >= Len(raw_questions) \/ item_quota_reached)
    /\ writer' = "closed"
    /\ pc' = "flush"
    /\ UNCHANGED <<cfgvars, mainvars, raw_questions, idx, question_count,
                   batch_rows, flushes, diskvars, dbvars, run, unitvars>>

rows_left_never == FALSE

(* line 453: if batch_rows and db_writer *)
rows_left == batch_rows # <<>> /\ DATABASE_URL

(* lines 453-454: the rows left in the batch are submitted; an error here   *)
(* is not caught                                                            *)
FinalFlush(outcome) ==
    /\ pc = "flush"
    /\ IF rows_left
       THEN /\ pyq_questions' = insert_questions(pyq_questions,
                                                 Stored(batch_rows, outcome))
            /\ flushes' = Append(flushes, Indices(batch_rows))
            /\ pc' = IF outcome.ok THEN "upsert" ELSE "crashed"
       ELSE /\ pc' = "upsert"
            /\ UNCHANGED <<pyq_questions, flushes>>
    /\ UNCHANGED <<cfgvars, mainvars, raw_questions, idx, question_count,
                   batch_rows, writer, diskvars, pyq_chapters, run, unitvars>>

(* lines 456-478: chapter_data is built and the chapter row upserted *)
UpsertChapter(ok) ==
    /\ pc = "upsert"
    /\ IF DATABASE_URL
       THEN IF ok
            THEN /\ pyq_chapters' = upsert_chapter(pyq_chapters,
                        [exam_id |-> exam, subject_id |-> subject,
                         chapter_id |-> chapter, question_count |-> question_count])
                 /\ pc' = "return"
            ELSE /\ pc' = "crashed"
                 /\ UNCHANGED pyq_chapters
       ELSE /\ pc' = "return"
            /\ UNCHANGED pyq_chapters
    /\ UNCHANGED <<cfgvars, mainvars, chapvars, diskvars, pyq_questions, run, unitvars>>

chapter_data_counts_fetched ==
    [exam_id |-> exam, subject_id |-> subject, chapter_id |-> chapter,
     total_questions |-> Len(raw_questions), file |-> Key]

(* lines 456-465: total_questions is question_count, file names the JSONL  *)
(* file of the chapter                                                     *)
chapter_data ==
    [exam_id |-> exam, subject_id |-> subject, chapter_id |-> chapter,
     total_questions |-> question_count, file |-> Key]

(* lines 480-483 and 526-527 *)
Return ==
    /\ pc = "return"
    /\ progress' = [progress EXCEPT !.processed_chapters = @ + 1]
    /\ all_data' = Append(all_data, chapter_data)
    /\ pc' = "chapters"
    /\ UNCHANGED <<cfgvars, exams, exam, subjects, subject, chapters, chapter,
                   chapvars, diskvars, dbvars, run, unitvars>>

(* lines 533-548: master_index.json is written *)
WriteIndex ==
    /\ pc = "index"
    /\ master_index' = Append(master_index,
           [total_exams |-> progress.total_exams,
            total_subjects |-> progress.total_subjects,
            total_chapters |-> progress.total_chapters,
            total_questions |-> progress.total_questions,
            chapters |-> all_data])
    /\ pc' = "done"
    /\ UNCHANGED <<cfgvars, mainvars, chapvars, files, dbvars, run, unitvars>>

(* The script is started again: a fresh process that has written no file   *)
(* yet, against the same tables                                            *)
Rerun ==
    /\ pc \in {"done", "returned", "crashed"}
    /\ run < MaxRuns
    /\ run' = run + 1
    /\ pc' = "main"
    /\ progress' = NewProgress
    /\ exams' = 0 /\ exam' = 0
    /\ subjects' = 0 /\ subject' = 0
    /\ chapters' = 0 /\ chapter' = 0
    /\ all_data' = <<>>
    /\ raw_questions' = <<>>
    /\ idx' = 0
    /\ question_count' = 0
    /\ batch_rows' = <<>>
    /\ writer' = "none"
    /\ flushes' = <<>>
    /\ files' = <<>>
    /\ master_index' = <<>>
    /\ UNCHANGED <<cfgvars, dbvars, unitvars>>

----------------------------------------------------------------------------
(* The catalogs and the specifications *)

PlainItem == RawQuestion("numerical", NoUrl, <<>>, Value(7))
ImageItem == RawQuestion("singleCorrect", Url(1, FALSE, ""),
                         <<RawOption(FALSE, NoUrl), RawOption(TRUE, NoUrl)>>, None)

RECURSIVE SeqsUpTo(_, _)
SeqsUpTo(S, n) ==
    IF n = 0 THEN {<<>>}
    ELSE LET shorter == SeqsUpTo(S, n - 1)
         IN  shorter \cup {Append(s, x) : s \in shorter, x \in S}

(* The crawl of a catalog of several exams, subjects and chapters, at most *)
(* MaxCatalog subjects and MaxCatalog chapters in all; of the questions of *)
(* a chapter the first may be malformed; a failing flush stores nothing.   *)
WalkLists ==
    {[i \in 1..n |-> IF i = bad THEN Malformed ELSE PlainItem] :
        n \in 0..MaxItems, bad \in 0..1}
WalkResponses == {Failed}
WalkOutcomes == {[ok |-> TRUE, stored |-> 0], [ok |-> FALSE, stored |-> 0]}

Init ==
    /\ MAX_CHAPTERS \in 0..MaxQuota
    /\ MAX_QUESTIONS \in 0..MaxQuota
    /\ DATABASE_URL \in BOOLEAN
    /\ IMAGE_BACKEND = "local"
    /\ StartOfRun
    /\ files = <<>>
    /\ master_index = <<>>
    /\ pyq_questions = {}
    /\ pyq_chapters = {}
    /\ run = 1
    /\ NoUnit

Next ==
    \/ \E n \in 0..MaxExams, connects \in BOOLEAN : Main(n, connects)
    \/ \E n \in 0..MaxSubjects :
          progress.total_subjects + n <= MaxCatalog /\ NextExam(n)
    \/ \E n \in 0..MaxChapters :
          progress.total_chapters + n <= MaxCatalog /\ NextSubject(n)
    \/ \E list \in WalkLists : EnterChapter(list)
    \/ LeaveChapters
    \/ \E response \in WalkResponses, outcome \in WalkOutcomes : Item(response, outcome)
    \/ EndItems
    \/ \E outcome \in WalkOutcomes : FinalFlush(outcome)
    \/ \E ok \in BOOLEAN : UpsertChapter(ok)
    \/ Return
    \/ WriteIndex

Spec == Init /\ [][Next]_vars

(* Runs and re-runs against one database: one exam, one subject, one       *)
(* chapter                                                                 *)
DbLists == SeqsUpTo({Malformed, PlainItem, ImageItem}, DbItems)
DbResponses == {Failed, [ok |-> TRUE, content_type |-> "image/png"]}

InitDb ==
    /\ MAX_CHAPTERS = 0
    /\ MAX_QUESTIONS = 0
    /\ DATABASE_URL = TRUE
    /\ IMAGE_BACKEND \in {"local", "s3"}
    /\ StartOfRun
    /\ files = <<>>
    /\ master_index = <<>>
    /\ pyq_questions = {}
    /\ pyq_chapters = {}
    /\ run = 1
    /\ NoUnit

NextDb ==
    \/ \E n \in 0..1, connects \in BOOLEAN : Main(n, connects)
    \/ \E n \in 0..1 : NextExam(n)
    \/ \E n \in 0..1 : NextSubject(n)
    \/ \E list \in DbLists : EnterChapter(list)
    \/ LeaveChapters
    \/ \E response \in DbResponses, outcome \in FlushOutcomes : Item(response, outcome)
    \/ EndItems
    \/ \E outcome \in FlushOutcomes : FinalFlush(outcome)
    \/ \E ok \in BOOLEAN : UpsertChapter(ok)
    \/ Return
    \/ WriteIndex
    \/ Rerun

SpecDb == InitDb /\ [][NextDb]_vars

(* A chapter large enough to fill a batch *)
FullChapter == [i \in 1..BatchSize + 1 |-> PlainItem]

InitBatch ==
    /\ MAX_CHAPTERS = 0
    /\ MAX_QUESTIONS = 0
    /\ DATABASE_URL = TRUE
    /\ IMAGE_BACKEND = "local"
    /\ StartOfRun
    /\ files = <<>>
    /\ master_index = <<>>
    /\ pyq_questions = {}
    /\ pyq_chapters = {}
    /\ run = 1
    /\ NoUnit

NextBatch ==
    \/ \E n \in 0..1, connects \in BOOLEAN : Main(n, connects)
    \/ \E n \in 0..1 : NextExam(n)
    \/ \E n \in 0..1 : NextSubject(n)
    \/ \E list \in {<<>>, FullChapter} : EnterChapter(list)
    \/ LeaveChapters
    \/ \E outcome \in FlushOutcomes : Item(Failed, outcome)
    \/ EndItems
    \/ \E outcome \in FlushOutcomes : FinalFlush(outcome)
    \/ \E ok \in BOOLEAN : UpsertChapter(ok)
    \/ Return
    \/ WriteIndex

SpecBatch == InitBatch /\ [][NextBatch]_vars

(* process_question alone, on one raw question *)
Types == {"numerical", "singleCorrect", "multipleCorrect", "none"}
NormOptions == SeqsUpTo({RawOption(TRUE, NoUrl), RawOption(FALSE, NoUrl)}, MaxOptions)
NormQuestions ==
    {Malformed} \cup
    {RawQuestion(t, NoUrl, o, v) : t \in Types, o \in NormOptions,
                                  v \in {None, Value(0), Value(42)}}

InitNorm ==
    /\ MAX_CHAPTERS = 0
    /\ MAX_QUESTIONS = 0
    /\ DATABASE_URL = FALSE
    /\ IMAGE_BACKEND = "local"
    /\ pc = "normalize"
    /\ progress = NewProgress
    /\ exams = 0 /\ exam = 0 /\ subjects = 0 /\ subject = 0
    /\ chapters = 0 /\ chapter = 0
    /\ all_data = <<>> /\ raw_questions = <<>> /\ idx = 0
    /\ question_count = 0 /\ batch_rows = <<>> /\ writer = "none" /\ flushes = <<>>
    /\ files = <<>> /\ master_index = <<>>
    /\ pyq_questions = {} /\ pyq_chapters = {}
    /\ run = 1
    /\ question \in NormQuestions
    /\ processed = None
    /\ resolved = <<>>

(* process_question returns the record *)
Normalize ==
    /\ pc = "normalize"
    /\ ~raises(question)
    /\ processed' = process_question(question, 1, 1, 1, 0, IMAGE_BACKEND, SameNet(Failed))
    /\ pc' = "normalized"
    /\ UNCHANGED <<cfgvars, mainvars, chapvars, diskvars, dbvars, run, question, resolved>>

(* process_question raises *)
NormalizeRaises ==
    /\ pc = "normalize"
    /\ raises(question)
    /\ pc' = "raised"
    /\ UNCHANGED <<cfgvars, mainvars, chapvars, diskvars, dbvars, run, unitvars>>

NextNorm == Normalize \/ NormalizeRaises

SpecNorm == InitNorm /\ [][NextNorm]_vars

(* ImageStore.download alone, called again and again *)
AssetUrls == {NoUrl, Url(1, TRUE, ".png"), Url(2, FALSE, ""),
              Url(3, FALSE, ".PNG"), Url(4, FALSE, ".png")}
AssetResponses == {Failed} \cup [ok : {TRUE}, content_type : ContentTypes]

InitAsset ==
    /\ MAX_CHAPTERS = 0
    /\ MAX_QUESTIONS = 0
    /\ DATABASE_URL = FALSE
    /\ IMAGE_BACKEND \in {"local", "s3"}
    /\ pc = "assets"
    /\ progress = NewProgress
    /\ exams = 0 /\ exam = 0 /\ subjects = 0 /\ subject = 0
    /\ chapters = 0 /\ chapter = 0
    /\ all_data = <<>> /\ raw_questions = <<>> /\ idx = 0
    /\ question_count = 0 /\ batch_rows = <<>> /\ writer = "none" /\ flushes = <<>>
    /\ files = <<>> /\ master_index = <<>>
    /\ pyq_questions = {} /\ pyq_chapters = {}
    /\ run = 1
    /\ NoUnit

(* image_store.download(url, save_path) as process_question calls it for   *)
(* the image of question number index; the server answers with response    *)
Resolve(url, index, response) ==
    /\ pc = "assets"
    /\ Len(resolved) < MaxResolves
    /\ LET save_path == SavePath(<<1, 1, 1>>, <<"q">>, index, url)
       IN  resolved' = Append(resolved,
               [url |-> url, save_path |-> save_path, response |-> response,
                ref |-> download(IMAGE_BACKEND, url, save_path, response)])
    /\ UNCHANGED <<cfgvars, pc, mainvars, chapvars, diskvars, dbvars, run,
                   question, processed>>

NextAsset ==
    \E url \in AssetUrls, index \in 0..1, response \in AssetResponses :
        Resolve(url, index, response)

SpecAsset == InitAsset /\ [][NextAsset]_vars

----------------------------------------------------------------------------
(* Properties of the crawl (specification Spec) *)

RECURSIVE SumLines(_, _)
SumLines(f, keys) ==
    IF keys = {} THEN 0
    ELSE LET k == CHOOSE x \in keys : TRUE
         IN  Len(f[k]) + SumLines(f, keys \ {k})

(* the records appended to all the JSONL streams of the run *)
TotalAppended == SumLines(files, DOMAIN files)

(* C1: with MAX_QUESTIONS = N > 0, at most N records are appended over all *)
(* the chapter streams of a run.                                           *)
C1_ItemQuota == MAX_QUESTIONS > 0 => TotalAppended <= MAX_QUESTIONS

(* the quota is exhausted while a well-formed question is still waiting *)
C1_Witness ==
    /\ MAX_QUESTIONS > 0
    /\ TotalAppended = MAX_QUESTIONS
    /\ pc = "items"
    /\ idx < Len(raw_questions)
    /\ ~raises(raw_questions[idx + 1])
    /\ Cardinality(DOMAIN files) > 1

(* C2: with MAX_CHAPTERS = M > 0, the master index written at the end of   *)
(* the run lists at most M chapters.                                       *)
C2_SubgroupQuota ==
    MAX_CHAPTERS > 0 =>
        \A i \in 1..Len(master_index) : Len(master_index[i].chapters) <= MAX_CHAPTERS

(* the index holds M chapters of a catalog that lists more, one returned   *)
(* no questions                                                            *)
C2_Witness ==
    /\ pc = "done"
    /\ MAX_CHAPTERS > 0
    /\ Len(master_index) = 1
    /\ Len(master_index[1].chapters) = MAX_CHAPTERS
    /\ progress.total_chapters > MAX_CHAPTERS
    /\ exam < exams

WellFormed(list) == {i \in 0..Len(list) - 1 : ~raises(list[i + 1])}

(* C3: when the loop over the questions of a chapter was not cut by the    *)
(* item quota, the closed JSONL file holds one record for every well-      *)
(* formed question, in source order, whatever questions failed.            *)
C3_FailureIsolation ==
    (pc \in {"flush", "upsert", "return"} /\ idx >= Len(raw_questions)) =>
        LET lines == files[Key]
            good == WellFormed(raw_questions)
        IN  /\ writer = "closed"
            /\ Len(lines) = Cardinality(good)
            /\ \A k \in 1..Len(lines) :
                   /\ lines[k].index \in good
                   /\ lines[k].type = raw_questions[lines[k].index + 1].type
                   /\ k > 1 => lines[k - 1].index < lines[k].index

(* a malformed question came first and the well-formed one after it is in  *)
(* the file                                                                *)
C3_Witness ==
    /\ pc = "flush"
    /\ Len(raw_questions) > 1
    /\ raises(raw_questions[1])
    /\ idx = Len(raw_questions)
    /\ Len(files[Key]) = Len(raw_questions) - 1

Ended == pc \in {"done", "returned"}

EnteredAfterQuota ==
    pc \in {"items", "flush", "upsert", "return"} /\ idx = 0 /\ item_quota_reached

(* C8: once the item quota is reached nothing more is appended, no further *)
(* chapter is entered (no questions fetched, no stream opened), and no     *)
(* chapter row or chapter_data is added for a chapter entered afterwards.  *)
C8_StopsAtItemQuota ==
    [][item_quota_reached =>
          /\ files' = files
          /\ pc = "chapters" => pc' # "items"
          /\ EnteredAfterQuota => pyq_chapters' = pyq_chapters /\ all_data' = all_data]_vars

(* the sum of the total_questions of a list of chapter_data *)
RECURSIVE SumCounts(_)
SumCounts(list) ==
    IF list = <<>> THEN 0
    ELSE Head(list).total_questions + SumCounts(Tail(list))

(* C11: in every master index written, total_questions is the sum of the   *)
(* total_questions of the chapters it lists, and the total_questions of    *)
(* each listed chapter is the number of lines appended to that chapter's   *)
(* JSONL file; the same holds of the chapter_data accumulated so far.      *)
C11_CountConsistency ==
    /\ \A i \in 1..Len(master_index) :
          LET index == master_index[i]
          IN  /\ index.total_questions = SumCounts(index.chapters)
              /\ \A k \in 1..Len(index.chapters) :
                    /\ index.chapters[k].file \in DOMAIN files
                    /\ index.chapters[k].total_questions
                           = Len(files[index.chapters[k].file])
    /\ \A k \in 1..Len(all_data) :
          /\ all_data[k].file \in DOMAIN files
          /\ all_data[k].total_questions = Len(files[all_data[k].file])

(* the index of a finished run lists two chapters with different counts,   *)
(* one of them with a question that failed                                 *)
C11_Witness ==
    /\ pc = "done"
    /\ Len(master_index) = 1
    /\ Len(master_index[1].chapters) = 2
    /\ master_index[1].chapters[1].total_questions = 2
    /\ master_index[1].chapters[2].total_questions = 1
    /\ master_index[1].total_questions = 3
    /\ progress.total_chapters = 2
    /\ Len(raw_questions) = 2

----------------------------------------------------------------------------
(* Properties of the database sink (specifications SpecDb and SpecBatch) *)

Keys(table) == {QuestionKey(r) : r \in table}
UniqueKeys(table) == \A r1, r2 \in table : QuestionKey(r1) = QuestionKey(r2) => r1 = r2
Rows(rows) == {rows[i] : i \in 1..Len(rows)}

(* C5: over all flushes and re-runs pyq_questions holds at most one row    *)
(* per (exam_id, subject_id, chapter_id, question_index); a flush loses no *)
(* key, leaves the number of rows unchanged when every stored key existed, *)
(* and after a flush that succeeded each submitted row is the row of its   *)
(* key.                                                                    *)
C5_Idempotent ==
    [][/\ UniqueKeys(pyq_questions')
       /\ Keys(pyq_questions) \subseteq Keys(pyq_questions')
       /\ Keys(pyq_questions') = Keys(pyq_questions) =>
              Cardinality(pyq_questions') = Cardinality(pyq_questions)
       /\ (pc = "flush" /\ pc' = "upsert") => Rows(batch_rows) \subseteq pyq_questions'
      ]_vars

(* in a second run a row is upserted whose key the first run stored, with  *)
(* another payload than the first run's file line would give               *)
C5_Witness ==
    /\ run = 2
    /\ pc = "upsert"
    /\ batch_rows # <<>>
    /\ Cardinality(pyq_questions) = Len(batch_rows)
    /\ \E c \in pyq_chapters : ChapterKey(c) = Key /\ c.question_count = Len(batch_rows)
    /\ \E i \in 1..Len(batch_rows) : batch_rows[i].payload.question_image # None

(* every line of the chapter's file is a row of pyq_questions *)
AllSubmitted ==
    \A k \in 1..Len(files[Key]) : Row(files[Key][k].index, files[Key][k]) \in pyq_questions

SummaryUpserted ==
    \E c \in pyq_chapters : ChapterKey(c) = Key /\ c.question_count = question_count

(* C9, as claimed: when the chapter row is upserted the stream is closed,  *)
(* every appended record is submitted and the batch buffer is empty; the   *)
(* chapter_data is added to all_data only after the upsert.                *)
C9_Original ==
    [][/\ pc = "upsert" => writer = "closed" /\ AllSubmitted /\ batch_rows = <<>>
       /\ Len(all_data') > Len(all_data) => SummaryUpserted
      ]_vars

(* C9, amended: when the chapter row is upserted the stream is closed and  *)
(* every appended record is submitted, the rows still held by the batch    *)
(* buffer (the final flush does not clear it) included; the chapter_data   *)
(* is added to all_data only after the upsert.                             *)
C9_CompletionOrder ==
    [][/\ pc = "upsert" =>
              /\ writer = "closed"
              /\ AllSubmitted
              /\ Rows(batch_rows) \subseteq pyq_questions
       /\ Len(all_data') > Len(all_data) =>
              /\ SummaryUpserted
              /\ all_data' = Append(all_data, chapter_data)
      ]_vars

(* a chapter with a malformed question has been closed, flushed and its    *)
(* row upserted; the buffer still holds the flushed row                    *)
C9_Witness ==
    /\ pc = "return"
    /\ SummaryUpserted
    /\ batch_rows # <<>>
    /\ Rows(batch_rows) \subseteq pyq_questions
    /\ Len(raw_questions) > Len(files[Key])
    /\ all_data = <<>>

(* C10: the batch buffer never holds more than 500 rows, no bulk upsert    *)
(* carries more than 500 rows, and no row is submitted in two flushes.     *)
C10_Batches ==
    /\ Len(batch_rows) <= BatchSize
    /\ \A i \in 1..Len(flushes) : Cardinality(flushes[i]) <= BatchSize
    /\ \A i, j \in 1..Len(flushes) : i # j => flushes[i] \cap flushes[j] = {}

----------------------------------------------------------------------------
(* Properties of ImageStore.download (specification SpecAsset) *)

SameCall(a, b) == a.url = b.url /\ a.save_path = b.save_path

(* C6, as claimed: two downloads of one URL to one save path return the    *)
(* same reference, whatever the server answers.                            *)
C6_Original ==
    \A i, j \in 1..Len(resolved) :
        SameCall(resolved[i], resolved[j]) => resolved[i].ref = resolved[j].ref

(* C6, amended: two downloads of one URL to one save path that both        *)
(* succeed return the same reference, on the s3 backend provided the URL's *)
(* path has an extension or the server declares the same content type both *)
(* times; a download that fails, or of an empty or root-relative URL,      *)
(* returns None.                                                           *)
C6_Deterministic ==
    /\ \A i, j \in 1..Len(resolved) :
          LET a == resolved[i]
              b == resolved[j]
          IN  (/\ SameCall(a, b)
               /\ a.response.ok /\ b.response.ok
               /\ \/ IMAGE_BACKEND = "local"
                  \/ a.url.ext # ""
                  \/ a.response.content_type = b.response.content_type)
              => a.ref = b.ref
    /\ \A i \in 1..Len(resolved) :
          LET a == resolved[i]
          IN  a.ref = None <=> (~a.response.ok \/ a.url.empty \/ a.url.rooted)

(* the s3 backend stores one URL with an extension twice, the server       *)
(* declaring another content type the second time                          *)
C6_Witness ==
    /\ IMAGE_BACKEND = "s3"
    /\ Len(resolved) >= 2
    /\ SameCall(resolved[1], resolved[2])
    /\ resolved[1].url.ext # ""
    /\ resolved[1].response.ok /\ resolved[2].response.ok
    /\ resolved[1].response.content_type = "image/webp"
    /\ resolved[2].response.content_type = "image/png"
    /\ resolved[1].ref = resolved[2].ref
    /\ resolved[1].ref # None

----------------------------------------------------------------------------
(* Properties of process_question (specification SpecNorm) *)

Correct(options) == {k \in 1..Len(options) : options[k].isCorrect}

(* the label of the choice at position k, counted from 1 *)
PositionLabel(k) ==
    CASE k = 1 -> "A" [] k = 2 -> "B" [] k = 3 -> "C" [] k = 4 -> "D"
      [] OTHER -> ToString(k)

(* C7: correct_answer is the raw correctValue when the type is "numerical" *)
(* (never a list of labels), and otherwise the labels of the choices       *)
(* flagged correct, in choice order: A..D for positions 1..4, the numeral  *)
(* k for a position k > 4.                                                 *)
C7_CorrectAnswer ==
    pc = "normalized" =>
        LET answer == processed.correct_answer
            correct == Correct(question.options)
        IN  IF question.type = "numerical"
            THEN answer = question.correctValue /\ answer.kind # "labels"
            ELSE /\ answer.kind = "labels"
                 /\ Len(answer.labels) = Cardinality(correct)
                 /\ \A k \in correct :
                       answer.labels[Cardinality({j \in correct : j <= k})]
                           = PositionLabel(k)

(* a multiple-choice question with a correct choice among the first four   *)
(* and one at position 5                                                   *)
C7_Witness ==
    /\ pc = "normalized"
    /\ question.type = "multipleCorrect"
    /\ Len(question.options) >= 5
    /\ question.options[2].isCorrect
    /\ question.options[5].isCorrect
    /\ processed.correct_answer.kind = "labels"
    /\ Len(processed.correct_answer.labels) >= 2

====
